---- MODULE Spec2Model ----
(***************************************************************************)
(* Model of the prompt-chaining blog generator: the four pipeline stages   *)
(* of PromptChaining (prompt_chaining.py) and the streaming endpoint       *)
(* generate_blog.event_generator (prompt_chaining_api.py).                 *)
(*                                                                         *)
(* A Python str is a sequence of one-character strings; Python's None is   *)
(* the value None below, which is no such sequence.  A dict is a sequence  *)
(* of <<key, value>> pairs with distinct keys, in insertion order.         *)
(***************************************************************************)
EXTENDS Integers, Sequences, FiniteSets, TLC

VARIABLES
    \* one call of one stage (the specifications of the single stages); under
    \* Spec, arg and service are kept per request
    arg,        \* the argument of the stage: a topic, an outline, a draft
    service,    \* what the model service does on each completion call, in call order
    ret,        \* NotCalled, or the stage's outcome (a return or a raise)
    \* the streaming endpoint, per request
    pc,         \* position of event_generator
    connected,  \* FALSE once the remote consumer has gone away
    topics, chosen_topic, outline, content,   \* locals of event_generator
    events,     \* the events yielded so far
    sent,       \* the prompts passed to generate_llm_response so far
    raised,     \* NoError, or the exception event_generator caught
    reports     \* what request.is_disconnected() returned, check by check

stageVars == <<arg, service, ret>>
streamVars == <<pc, connected, topics, chosen_topic, outline, content, events,
                sent, raised, reports>>
vars == <<arg, service, ret, pc, connected, topics, chosen_topic, outline,
          content, events, sent, raised, reports>>

----------------------------------------------------------------------------
(* Python values *)

None == <<"NoneType">>
SP == " "
NL == "\n"
TAB == "\t"
EmptyStr == <<>>

\* str.strip() and str.split() with no argument act on these characters
Whitespace == {SP, NL, TAB}

\* str(v) as an f-string formats it
Format(v) == IF v = None THEN <<"N", "o", "n", "e">> ELSE v

RECURSIVE LStripFrom(_, _)
LStripFrom(s, i) ==
    IF i > Len(s) \/ s[i] \notin Whitespace THEN i ELSE LStripFrom(s, i + 1)

RECURSIVE RStripFrom(_, _)
RStripFrom(s, j) ==
    IF j < 1 \/ s[j] \notin Whitespace THEN j ELSE RStripFrom(s, j - 1)

\* str.strip()
Strip(s) == SubSeq(s, LStripFrom(s, 1), RStripFrom(s, Len(s)))

\* str.split('\n'): the pieces between newlines, empty pieces kept
RECURSIVE SplitFrom(_, _, _)
SplitFrom(s, i, piece) ==
    IF i > Len(s) THEN <<piece>>
    ELSE IF s[i] = NL THEN <<piece>> \o SplitFrom(s, i + 1, <<>>)
    ELSE SplitFrom(s, i + 1, Append(piece, s[i]))

SplitLines(s) == SplitFrom(s, 1, <<>>)

\* len(str.split()): the number of maximal runs of non-whitespace characters
WordCount(s) ==
    Cardinality({i \in 1..Len(s) :
        s[i] \notin Whitespace /\ (i = 1 \/ s[i - 1] \in Whitespace)})

\* str.startswith('  ')
StartsWithTwoSpaces(s) == Len(s) >= 2 /\ s[1] = SP /\ s[2] = SP

\* sep.join(parts)
RECURSIVE Join(_, _)
Join(sep, parts) ==
    IF parts = <<>> THEN <<>>
    ELSE IF Len(parts) = 1 THEN parts[1]
    ELSE parts[1] \o sep \o Join(sep, Tail(parts))

\* [f(x) for x in xs if p(x)] for the two comprehensions of the stages
RECURSIVE SelectSeqStripped(_)
SelectSeqStripped(lines) ==
    IF lines = <<>> THEN <<>>
    ELSE IF Strip(Head(lines)) # <<>>
         THEN <<Strip(Head(lines))>> \o SelectSeqStripped(Tail(lines))
         ELSE SelectSeqStripped(Tail(lines))

----------------------------------------------------------------------------
(* Outcomes of a call: a return or a raise *)

NotCalled == [type |-> "not called"]
Return(v, prompts) == [type |-> "return", value |-> v, message |-> "", prompts |-> prompts]
Raise(t, m, prompts) == [type |-> t, value |-> None, message |-> m, prompts |-> prompts]

MinTopics == 3
MinSections == 3
MinWords == 300

TopicsMessage == "Not enough topics generated. Please try again."
OutlineMessage == "Outline is too short. Please generate a more detailed outline."
ContentMessage == "Content is too short. Please generate more detailed content."
PolishMessage == "No meaningful edits were made. Please try editing again."
NoSplit == "'NoneType' object has no attribute 'split'"
NoStrip == "'NoneType' object has no attribute 'strip'"

----------------------------------------------------------------------------
(* The model service: what client.chat.completions.create does on one call *)

ServiceText(s) == [kind |-> "text", text |-> s]
ServiceAbsent == [kind |-> "absent", text |-> None]     \* message.content is None
ServiceFailure == [kind |-> "failure", text |-> None]   \* the call raises

\* PromptChaining.generate_llm_response: the content of the response as the
\* service gave it (a str, or None when it is absent), "" when the call raised
generate_llm_response(prompt, outcome) ==
    IF outcome.kind = "failure" THEN EmptyStr ELSE outcome.text

----------------------------------------------------------------------------
(* Stage 1 *)

TopicsPrompt(domain, target_audience) ==
    [stage |-> "topics", domain |-> domain, target_audience |-> target_audience]

generate_blog_topics_gate2(domain, target_audience, outcome) ==
    LET prompt == TopicsPrompt(domain, target_audience)
        response == generate_llm_response(prompt, outcome)
    IN  IF response = None THEN Raise("AttributeError", NoSplit, <<prompt>>)
        ELSE LET tl == SelectSeqStripped(SplitLines(response))
             IN  IF Len(tl) < 2
                 THEN Raise("ValueError", TopicsMessage, <<prompt>>)
                 ELSE Return(tl, <<prompt>>)

\* PromptChaining.generate_blog_topics
generate_blog_topics(domain, target_audience, outcome) ==
    LET prompt == TopicsPrompt(domain, target_audience)
        response == generate_llm_response(prompt, outcome)
    IN  IF response = None THEN Raise("AttributeError", NoSplit, <<prompt>>)
        ELSE LET tl == SelectSeqStripped(SplitLines(response))
             IN  IF Len(tl) < MinTopics
                 THEN Raise("ValueError", TopicsMessage, <<prompt>>)
                 ELSE Return(tl, <<prompt>>)

----------------------------------------------------------------------------
(* Stage 2 *)

OutlinePrompt(topic) == [stage |-> "outline", topic |-> topic]

\* key in d
HasKey(d, k) == \E p \in 1..Len(d) : d[p][1] = k

\* d[k] = v: a new key goes last, an old key keeps its place
DictSet(d, k, v) ==
    IF HasKey(d, k)
    THEN [p \in 1..Len(d) |-> IF d[p][1] = k THEN <<k, v>> ELSE d[p]]
    ELSE Append(d, <<k, v>>)

\* d[k].append(x), for a key of d
DictAppend(d, k, x) ==
    [p \in 1..Len(d) |-> IF d[p][1] = k THEN <<k, Append(d[p][2], x)>> ELSE d[p]]

KeyErrorMark == <<"KeyError">>

\* the loop of create_outline from line i on; KeyErrorMark when sections[None] is read
RECURSIVE ParseOutline(_, _, _, _)
ParseOutline(lines, i, sections, current_section) ==
    IF i > Len(lines) THEN sections
    ELSE IF Strip(lines[i]) = <<>>
         THEN ParseOutline(lines, i + 1, sections, current_section)
    ELSE IF ~StartsWithTwoSpaces(lines[i])
         THEN ParseOutline(lines, i + 1,
                           DictSet(sections, Strip(lines[i]), <<>>), Strip(lines[i]))
    ELSE IF ~HasKey(sections, current_section) THEN KeyErrorMark
    ELSE ParseOutline(lines, i + 1,
                      DictAppend(sections, current_section, Strip(lines[i])),
                      current_section)

\* a parse that keeps one entry per heading line, repeated headings included
RECURSIVE ParseOutlineKeepAll(_, _, _, _)
ParseOutlineKeepAll(lines, i, sections, current_section) ==
    IF i > Len(lines) THEN sections
    ELSE IF Strip(lines[i]) = <<>>
         THEN ParseOutlineKeepAll(lines, i + 1, sections, current_section)
    ELSE IF ~StartsWithTwoSpaces(lines[i])
         THEN ParseOutlineKeepAll(lines, i + 1,
                                  Append(sections, <<Strip(lines[i]), <<>>>>),
                                  Strip(lines[i]))
    ELSE IF sections = <<>> THEN KeyErrorMark
    ELSE ParseOutlineKeepAll(lines, i + 1,
             [sections EXCEPT ![Len(sections)][2] = Append(@, Strip(lines[i]))],
             current_section)

create_outline_keep_all(topic, outcome) ==
    LET prompt == OutlinePrompt(topic)
        response == generate_llm_response(prompt, outcome)
    IN  IF response = None THEN Raise("AttributeError", NoSplit, <<prompt>>)
        ELSE LET sections == ParseOutlineKeepAll(SplitLines(response), 1, <<>>, None)
             IN  IF sections = KeyErrorMark THEN Raise("KeyError", "None", <<prompt>>)
                 ELSE IF Len(sections) < MinSections
                 THEN Raise("ValueError", OutlineMessage, <<prompt>>)
                 ELSE Return(sections, <<prompt>>)

\* PromptChaining.create_outline
create_outline(topic, outcome) ==
    LET prompt == OutlinePrompt(topic)
        response == generate_llm_response(prompt, outcome)
    IN  IF response = None THEN Raise("AttributeError", NoSplit, <<prompt>>)
        ELSE LET sections == ParseOutline(SplitLines(response), 1, <<>>, None)
             IN  IF sections = KeyErrorMark THEN Raise("KeyError", "None", <<prompt>>)
                 ELSE IF Len(sections) < MinSections
                 THEN Raise("ValueError", OutlineMessage, <<prompt>>)
                 ELSE Return(sections, <<prompt>>)

----------------------------------------------------------------------------
(* Stage 3 *)

CommaSpace == <<",", SP>>

SectionPrompt(points) == [stage |-> "section", points |-> Join(CommaSpace, points)]

\* f"\n{section}\n{section_content}"
SectionBlock(section, section_content) ==
    <<NL>> \o Format(section) \o <<NL>> \o Format(section_content)

SectionPrompts(outl) == [i \in 1..Len(outl) |-> SectionPrompt(outl[i][2])]

write_content_inclusive_gate(outl, outcomes) ==
    LET prompts == SectionPrompts(outl)
        blocks == [i \in 1..Len(outl) |->
                      SectionBlock(outl[i][1], generate_llm_response(prompts[i], outcomes[i]))]
        final_content == Join(<<NL>>, blocks)
    IN  IF WordCount(final_content) <= MinWords
        THEN Raise("ValueError", ContentMessage, prompts)
        ELSE Return(final_content, prompts)

\* PromptChaining.write_content; outcomes[i] is what the service does on the i-th call
write_content(outl, outcomes) ==
    LET prompts == SectionPrompts(outl)
        blocks == [i \in 1..Len(outl) |->
                      SectionBlock(outl[i][1], generate_llm_response(prompts[i], outcomes[i]))]
        final_content == Join(<<NL>>, blocks)
    IN  IF WordCount(final_content) < MinWords
        THEN Raise("ValueError", ContentMessage, prompts)
        ELSE Return(final_content, prompts)

----------------------------------------------------------------------------
(* Stage 4 *)

PolishPrompt(draft) == [stage |-> "polish", content |-> Format(draft)]

edit_and_polish_exact_compare(draft, outcome) ==
    LET prompt == PolishPrompt(draft)
        final_content == generate_llm_response(prompt, outcome)
    IN  IF final_content = None THEN Raise("AttributeError", NoStrip, <<prompt>>)
        ELSE IF final_content = draft
        THEN Raise("ValueError", PolishMessage, <<prompt>>)
        ELSE Return(final_content, <<prompt>>)

\* PromptChaining.edit_and_polish
edit_and_polish(draft, outcome) ==
    LET prompt == PolishPrompt(draft)
        final_content == generate_llm_response(prompt, outcome)
    IN  IF final_content = None THEN Raise("AttributeError", NoStrip, <<prompt>>)
        ELSE IF Strip(final_content) = Strip(draft)
        THEN Raise("ValueError", PolishMessage, <<prompt>>)
        ELSE Return(final_content, <<prompt>>)

----------------------------------------------------------------------------
(* Bounded inputs *)

\* all sequences over S of length at most n
RECURSIVE SeqsUpTo(_, _)
SeqsUpTo(S, n) ==
    IF n = 0 THEN {<<>>}
    ELSE LET shorter == SeqsUpTo(S, n - 1)
         IN  shorter \cup {Append(q, x) : q \in {t \in shorter : Len(t) = n - 1}, x \in S}

MaxTopicLines == 4

TopicLines ==
    { <<>>, <<SP>>, <<"a">>, <<"b">>, <<SP, "a", SP>>, <<TAB, "b", SP, "c">> }

TopicResponses == {Join(<<NL>>, ls) : ls \in SeqsUpTo(TopicLines, MaxTopicLines)}

ServiceOutcomes(texts) ==
    {ServiceText(s) : s \in texts} \cup {ServiceAbsent, ServiceFailure}

Domain == <<"d">>
Audience == <<"u">>

\* the streaming variables while a single stage is examined
StreamIdle ==
    /\ pc = <<>> /\ connected = <<>> /\ topics = <<>> /\ chosen_topic = <<>>
    /\ outline = <<>> /\ content = <<>> /\ events = <<>> /\ sent = <<>>
    /\ raised = <<>> /\ reports = <<>>

InitTopics ==
    /\ arg = <<Domain, Audience>>
    /\ service \in {<<o>> : o \in ServiceOutcomes(TopicResponses)}
    /\ ret = NotCalled
    /\ StreamIdle

CallTopics ==
    /\ ret = NotCalled
    /\ ret' = generate_blog_topics(arg[1], arg[2], service[1])
    /\ UNCHANGED <<arg, service>>
    /\ UNCHANGED streamVars

SpecTopics == InitTopics /\ [][CallTopics]_vars

MaxOutlineLines == 5

OutlineLines ==
    { <<>>, <<"a">>, <<"b">>, <<"c", SP>>, <<SP, "a">>, <<TAB, "b">>,
      <<SP, SP, "x", SP>> }

OutlineResponses == {Join(<<NL>>, ls) : ls \in SeqsUpTo(OutlineLines, MaxOutlineLines)}

Topic == <<"t">>

InitOutline ==
    /\ arg = Topic
    /\ service \in {<<o>> : o \in ServiceOutcomes(OutlineResponses)}
    /\ ret = NotCalled
    /\ StreamIdle

CallOutline ==
    /\ ret = NotCalled
    /\ ret' = create_outline(arg, service[1])
    /\ UNCHANGED <<arg, service>>
    /\ UNCHANGED streamVars

SpecOutline == InitOutline /\ [][CallOutline]_vars

\* n words separated by single spaces
Words(n) == [i \in 1..(IF n = 0 THEN 0 ELSE 2 * n - 1) |-> IF i % 2 = 1 THEN "w" ELSE SP]

\* all sequences over S of length exactly n
SeqsOfLen(S, n) == {q \in SeqsUpTo(S, n) : Len(q) = n}

MaxSections == 3

SampleSections ==
    << <<<<"a">>, << <<"x">>, <<"y">> >> >>,
       <<<<"c", SP, "d">>, << >> >>,
       <<<<"b">>, << <<"x">> >> >>,
       <<<<"e">>, << <<"y">> >> >>,
       <<<<"f">>, << >> >> >>

\* the outlines: the first n sample sections, for n up to MaxSections
SampleOutlines == {SubSeq(SampleSections, 1, n) : n \in 0..MaxSections}

\* section texts around a third of the word gate
SectionTexts ==
    { <<>>, <<"w">>, Words(MinWords \div 3 - 2), Words(MinWords \div 3 - 1),
      Words(MinWords \div 3), <<SP>> \o Words(MinWords \div 3 - 2) \o <<NL, "w", NL>> }

InitWrite ==
    /\ arg \in SampleOutlines
    /\ service \in SeqsOfLen(ServiceOutcomes(SectionTexts), Len(arg))
    /\ ret = NotCalled
    /\ StreamIdle

CallWrite ==
    /\ ret = NotCalled
    /\ ret' = write_content(arg, service)
    /\ UNCHANGED <<arg, service>>
    /\ UNCHANGED streamVars

SpecWrite == InitWrite /\ [][CallWrite]_vars

MaxLen == 3

Alphabet == {"a", "b", SP, NL}

Drafts == SeqsUpTo(Alphabet, MaxLen)

InitPolish ==
    /\ arg \in Drafts
    /\ service \in {<<o>> : o \in ServiceOutcomes(Drafts)}
    /\ ret = NotCalled
    /\ StreamIdle

CallPolish ==
    /\ ret = NotCalled
    /\ ret' = edit_and_polish(arg, service[1])
    /\ UNCHANGED <<arg, service>>
    /\ UNCHANGED streamVars

SpecPolish == InitPolish /\ [][CallPolish]_vars

----------------------------------------------------------------------------
(* The streaming endpoint: generate_blog.event_generator, one per request.  *)
(* The stage calls are synchronous, so a stage and the yield that follows   *)
(* it are one step; the generator is suspended at each yield, at the sleep  *)
(* and at the probe, where the steps of other requests may come between.    *)

Requests == [r1 |-> <<<<"d", "1">>, <<"u", "1">>>>, r2 |-> <<<<"d", "2">>, <<"u", "2">>>>]
Runs == DOMAIN Requests

Unbound == <<>>
NoError == [type |-> "none"]

TopicsEvent(tl) == [event |-> "topics", data |-> [topics |-> tl]]
OutlineEvent(outl, topic) == [event |-> "outline", data |-> [outline |-> outl, topic |-> topic]]
ContentEventAsFinal(c) == [event |-> "final_content", data |-> [content |-> c]]
ContentEvent(c) == [event |-> "initial_content", data |-> [content |-> c]]
FinalEvent(c) == [event |-> "final_content", data |-> [content |-> c]]
ErrorEvent(message) == [event |-> "error", data |-> [error |-> message]]

StagePc(k) == <<"stage", k>>
CheckPc(k) == <<"check", k>>
Done == <<"done", 0>>

PcAfterStageContinuing(k, out) == IF k = 4 THEN Done ELSE CheckPc(k + 1)

\* where event_generator goes after stage k: the except clause ends it, the
\* last stage ends it, else the sleep and the probe follow the yield
PcAfterStage(k, out) ==
    IF out.type # "return" \/ k = 4 THEN Done ELSE CheckPc(k + 1)

PcAfterProbeIgnored(k, gone) == StagePc(k)

\* if await request.is_disconnected(): return
PcAfterProbe(k, gone) == IF gone THEN Done ELSE StagePc(k)

PolishInputShared(r) == content[CHOOSE q \in Runs : content[q] # Unbound]

\* the argument of edit_and_polish: the local content of this generator
PolishInput(r) == content[r]

\* the yield of stage k's event, or of the error event of the except clause
Yielded(r, k, out, event) ==
    /\ events' = [events EXCEPT ![r] =
                     Append(@, IF out.type = "return" THEN event ELSE ErrorEvent(out.message))]
    /\ raised' = [raised EXCEPT ![r] =
                     IF out.type = "return" THEN @
                     ELSE [type |-> out.type, message |-> out.message, stage |-> k,
                           calls |-> Len(sent[r]) + Len(out.prompts)]]
    /\ sent' = [sent EXCEPT ![r] = @ \o out.prompts]
    /\ pc' = [pc EXCEPT ![r] = PcAfterStage(k, out)]

StreamTopicOutcomes ==
    ServiceOutcomes({ <<"a", NL, "b", NL, "c">>,
                      <<SP, "b", SP, NL, NL, "a", NL, "c">>,
                      <<"a", NL, "b">> })

StreamOutlineOutcomes ==
    ServiceOutcomes({ <<"a", NL, SP, SP, "x", NL, "b", NL, "c">>,
                      <<"c", NL, SP, SP, "y", NL, SP, SP, "x", NL, "b", NL, "a">>,
                      <<"a", NL, "b">>,
                      <<SP, SP, "x">> })

StreamSectionOutcomes == {ServiceText(Words(MinWords \div 3)), ServiceFailure}

StreamPolishOutcomes(draft) ==
    ServiceOutcomes({draft, Append(draft, "!")})

Init ==
    /\ arg = Requests
    /\ service = [r \in Runs |-> <<>>]
    /\ ret = NotCalled
    /\ pc = [r \in Runs |-> StagePc(1)]
    /\ connected = [r \in Runs |-> TRUE]
    /\ topics = [r \in Runs |-> Unbound]
    /\ chosen_topic = [r \in Runs |-> Unbound]
    /\ outline = [r \in Runs |-> Unbound]
    /\ content = [r \in Runs |-> Unbound]
    /\ events = [r \in Runs |-> <<>>]
    /\ sent = [r \in Runs |-> <<>>]
    /\ raised = [r \in Runs |-> NoError]
    /\ reports = [r \in Runs |-> <<>>]

\* lines 36-40
Stage1(r) ==
    /\ pc[r] = StagePc(1)
    /\ \E o \in StreamTopicOutcomes :
        LET out == generate_blog_topics(arg[r][1], arg[r][2], o)
        IN  /\ service' = [service EXCEPT ![r] = Append(@, o)]
            /\ topics' = [topics EXCEPT ![r] = IF out.type = "return" THEN out.value ELSE @]
            /\ Yielded(r, 1, out, TopicsEvent(out.value))
    /\ UNCHANGED <<arg, ret, connected, chosen_topic, outline, content, reports>>

\* lines 42-43, 52-53, 61-62
Probe(r) ==
    /\ \E k \in 2..4 :
        /\ pc[r] = CheckPc(k)
        /\ reports' = [reports EXCEPT ![r] = Append(@, ~connected[r])]
        /\ pc' = [pc EXCEPT ![r] = PcAfterProbe(k, ~connected[r])]
    /\ UNCHANGED <<arg, service, ret, connected, topics, chosen_topic, outline,
                   content, events, sent, raised>>

\* lines 45-50
Stage2(r) ==
    /\ pc[r] = StagePc(2)
    /\ \E o \in StreamOutlineOutcomes :
        LET topic == Head(topics[r])
            out == create_outline(topic, o)
        IN  /\ service' = [service EXCEPT ![r] = Append(@, o)]
            /\ chosen_topic' = [chosen_topic EXCEPT ![r] = topic]
            /\ outline' = [outline EXCEPT ![r] = IF out.type = "return" THEN out.value ELSE @]
            /\ Yielded(r, 2, out, OutlineEvent(out.value, topic))
    /\ UNCHANGED <<arg, ret, connected, topics, content, reports>>

\* lines 55-59
Stage3(r) ==
    /\ pc[r] = StagePc(3)
    /\ \E os \in SeqsOfLen(StreamSectionOutcomes, Len(outline[r])) :
        LET out == write_content(outline[r], os)
        IN  /\ service' = [service EXCEPT ![r] = @ \o os]
            /\ content' = [content EXCEPT ![r] = IF out.type = "return" THEN out.value ELSE @]
            /\ Yielded(r, 3, out, ContentEvent(out.value))
    /\ UNCHANGED <<arg, ret, connected, topics, chosen_topic, outline, reports>>

\* lines 64-67
Stage4(r) ==
    /\ pc[r] = StagePc(4)
    /\ \E o \in StreamPolishOutcomes(PolishInput(r)) :
        LET out == edit_and_polish(PolishInput(r), o)
        IN  /\ service' = [service EXCEPT ![r] = Append(@, o)]
            /\ Yielded(r, 4, out, FinalEvent(out.value))
    /\ UNCHANGED <<arg, ret, connected, topics, chosen_topic, outline, content, reports>>

\* the remote consumer goes away; nothing reads the flag once the generator has ended
Disconnect(r) ==
    /\ connected[r] /\ pc[r] # Done
    /\ connected' = [connected EXCEPT ![r] = FALSE]
    /\ UNCHANGED <<arg, service, ret, pc, topics, chosen_topic, outline, content,
                   events, sent, raised, reports>>

Next ==
    \E r \in Runs :
        \/ Stage1(r) \/ Probe(r) \/ Stage2(r) \/ Stage3(r) \/ Stage4(r)
        \/ Disconnect(r)

Spec == Init /\ [][Next]_vars

----------------------------------------------------------------------------
(* Properties of the single stages *)

\* the k-th smallest element of a set of numbers
Kth(S, k) == CHOOSE i \in S : Cardinality({j \in S : j < i}) = k - 1

Blank(line) == \A i \in 1..Len(line) : line[i] \in Whitespace
NonBlankLines(lines) == {i \in 1..Len(lines) : ~Blank(lines[i])}

\* the text a completion call returned, for a call that returned text
TextResponse(outcome) == generate_llm_response(<<>>, outcome)

\* C4: whatever the model service does (text, absent content, failure), the
\* completion function returns a string, never None, and the empty string on
\* failure.
C4_CompletionReturnsString ==
    ret # NotCalled =>
        LET response == generate_llm_response(ret.prompts[1], service[1])
        IN  /\ response # None
            /\ \A i \in 1..Len(response) : response[i] \in STRING
            /\ service[1].kind = "failure" => response = EmptyStr

\* C6: generate_blog_topics returns exactly the trimmed non-blank lines of the
\* response text, in order, when there are at least 3 of them, and raises the
\* insufficient-output ValueError, returning no list, when there are fewer.
C6_TopicsAreTrimmedNonBlankLines ==
    (ret # NotCalled /\ service[1].kind # "absent") =>
        LET lines == SplitLines(TextResponse(service[1]))
            nb == NonBlankLines(lines)
        IN  IF Cardinality(nb) >= 3
            THEN /\ ret.type = "return"
                 /\ Len(ret.value) = Cardinality(nb)
                 /\ \A k \in 1..Len(ret.value) : ret.value[k] = Strip(lines[Kth(nb, k)])
            ELSE /\ ret.type = "ValueError"
                 /\ ret.message = TopicsMessage
                 /\ ret.value = None

\* a response with a blank line and padded lines among four topics was parsed
C6_Witness ==
    /\ ret # NotCalled /\ ret.type = "return"
    /\ service[1].kind = "text"
    /\ Len(ret.value) = 3
    /\ Len(SplitLines(service[1].text)) = 4
    /\ \E i \in 1..4 : SplitLines(service[1].text)[i] # Strip(SplitLines(service[1].text)[i])
                       /\ ~Blank(SplitLines(service[1].text)[i])

\* C7 as stated.  A line is unindented when it has no leading whitespace.
\* For a response whose first non-blank line is unindented: one entry per
\* unindented non-blank line, in order, valued with the trimmed indented lines
\* up to the next unindented line; fewer than 3 unindented lines raise.
ClaimedUnindented(lines) == {i \in NonBlankLines(lines) : lines[i][1] \notin Whitespace}

ClaimedBullets(lines, i) ==
    LET next == {j \in ClaimedUnindented(lines) : j > i}
        upto == IF next = {} THEN Len(lines) + 1 ELSE Kth(next, 1)
        idx == {j \in NonBlankLines(lines) : i < j /\ j < upto}
    IN  [k \in 1..Cardinality(idx) |-> Strip(lines[Kth(idx, k)])]

C7_OneEntryPerUnindentedLine ==
    (ret # NotCalled /\ service[1].kind # "absent") =>
        LET lines == SplitLines(TextResponse(service[1]))
            nb == NonBlankLines(lines)
            un == ClaimedUnindented(lines)
        IN  (nb # {} => Kth(nb, 1) \in un) =>
                IF Cardinality(un) < 3
                THEN ret.type = "ValueError" /\ ret.message = OutlineMessage
                ELSE /\ ret.type = "return"
                     /\ Len(ret.value) = Cardinality(un)
                     /\ \A p \in 1..Len(ret.value) :
                            ret.value[p] = <<Strip(lines[Kth(un, p)]),
                                             ClaimedBullets(lines, Kth(un, p))>>

\* C7 as amended.  A heading is a non-blank line that does not start with two
\* spaces.  For a response whose first non-blank line is a heading: one entry
\* per distinct trimmed heading, in order of first appearance, valued with the
\* trimmed non-blank lines between the LAST line with that heading and the
\* next heading line; fewer than 3 distinct headings raise.
HeadingLines(lines) == {i \in NonBlankLines(lines) : ~StartsWithTwoSpaces(lines[i])}

FirstLineOf(lines, key) ==
    Kth({i \in HeadingLines(lines) : Strip(lines[i]) = key}, 1)

LastLineOf(lines, key) ==
    LET occ == {i \in HeadingLines(lines) : Strip(lines[i]) = key}
    IN  Kth(occ, Cardinality(occ))

BulletsAfter(lines, i) ==
    LET next == {j \in HeadingLines(lines) : j > i}
        upto == IF next = {} THEN Len(lines) + 1 ELSE Kth(next, 1)
        idx == {j \in NonBlankLines(lines) : i < j /\ j < upto}
    IN  [k \in 1..Cardinality(idx) |-> Strip(lines[Kth(idx, k)])]

C7_OneEntryPerDistinctHeading ==
    (ret # NotCalled /\ service[1].kind # "absent") =>
        LET lines == SplitLines(TextResponse(service[1]))
            nb == NonBlankLines(lines)
            hl == HeadingLines(lines)
            keys == {Strip(lines[i]) : i \in hl}
        IN  (nb # {} => Kth(nb, 1) \in hl) =>
                IF Cardinality(keys) < 3
                THEN ret.type = "ValueError" /\ ret.message = OutlineMessage
                ELSE /\ ret.type = "return"
                     /\ Len(ret.value) = Cardinality(keys)
                     /\ {ret.value[p][1] : p \in 1..Len(ret.value)} = keys
                     /\ \A p, q \in 1..Len(ret.value) :
                            p < q => FirstLineOf(lines, ret.value[p][1])
                                        < FirstLineOf(lines, ret.value[q][1])
                     /\ \A p \in 1..Len(ret.value) :
                            ret.value[p][2] =
                                BulletsAfter(lines, LastLineOf(lines, ret.value[p][1]))

\* an outline with a repeated heading, whose earlier bullets are dropped, was parsed
C7_Witness ==
    /\ ret # NotCalled /\ ret.type = "return"
    /\ service[1].kind = "text"
    /\ Cardinality(HeadingLines(SplitLines(service[1].text))) > Len(ret.value)
    /\ \E p \in 1..Len(ret.value) : ret.value[p][2] # <<>>

\* C8: write_content makes exactly one completion call per outline entry, in
\* outline order, and its draft is the section blocks (heading, newline, the
\* section's generated text, each block led by a newline and the blocks
\* separated by a newline) in outline order; it raises the insufficient-output
\* ValueError exactly when that draft has fewer than 300 whitespace-delimited
\* tokens and otherwise returns the draft.
RECURSIVE ClaimedDraft(_, _, _)
ClaimedDraft(outl, texts, n) ==
    IF n = 0 THEN <<>>
    ELSE ClaimedDraft(outl, texts, n - 1) \o (IF n > 1 THEN <<NL>> ELSE <<>>)
             \o <<NL>> \o outl[n][1] \o <<NL>> \o texts[n]

C8_DraftIsBlocksInOutlineOrder ==
    (ret # NotCalled /\ \A i \in 1..Len(service) : service[i].kind # "absent") =>
        LET texts == [i \in 1..Len(service) |-> TextResponse(service[i])]
            draft == ClaimedDraft(arg, texts, Len(arg))
        IN  /\ Len(ret.prompts) = Len(arg)
            /\ \A i \in 1..Len(arg) :
                   ret.prompts[i] = [stage |-> "section", points |-> Join(<<",", SP>>, arg[i][2])]
            /\ IF WordCount(draft) < 300
               THEN ret.type = "ValueError" /\ ret.message = ContentMessage /\ ret.value = None
               ELSE ret.type = "return" /\ ret.value = draft

\* a draft of exactly 300 tokens over three sections was returned
C8_Witness ==
    /\ ret # NotCalled /\ ret.type = "return"
    /\ Len(arg) = 3
    /\ WordCount(ret.value) = 300
    /\ \A i \in 1..3 : service[i].kind = "text"

\* C9: edit_and_polish raises the no-effective-change ValueError exactly when
\* the response and the draft are equal once leading and trailing whitespace
\* is removed from both; any other response is returned unchanged.
Core(s) ==
    LET nw == {i \in 1..Len(s) : s[i] \notin Whitespace}
    IN  IF nw = {} THEN <<>> ELSE SubSeq(s, Kth(nw, 1), Kth(nw, Cardinality(nw)))

C9_PolishGateIsTrimmedEquality ==
    (ret # NotCalled /\ service[1].kind # "absent") =>
        LET response == TextResponse(service[1])
        IN  IF Core(response) = Core(arg)
            THEN ret.type = "ValueError" /\ ret.message = PolishMessage /\ ret.value = None
            ELSE ret.type = "return" /\ ret.value = response

\* a padded response differing from the draft in one character was returned as it is
C9_Witness ==
    /\ ret # NotCalled /\ ret.type = "return"
    /\ service[1].kind = "text"
    /\ Len(service[1].text) = Len(arg) /\ Len(arg) = 3
    /\ Cardinality({i \in 1..3 : service[1].text[i] # arg[i]}) = 1
    /\ service[1].text[1] = SP /\ arg[1] = SP
    /\ ret.value = service[1].text

----------------------------------------------------------------------------
(* Properties of the streaming endpoint *)

StageNames == <<"topics", "outline", "initial_content", "final_content">>
PromptStages == [topics |-> 1, outline |-> 2, section |-> 3, polish |-> 4]

EventNames(r) == [i \in 1..Len(events[r]) |-> events[r][i].event]

\* the stage events of a request: its events without the error event
StageEvents(r) == SelectSeq(events[r], LAMBDA e : e.event # "error")

\* the outcomes the service gave to the completion calls of stage k of a request
OutcomesOf(r, k) ==
    LET idx == {i \in 1..Len(sent[r]) : PromptStages[sent[r][i].stage] = k}
    IN  [j \in 1..Cardinality(idx) |-> service[r][Kth(idx, j)]]

PromptsOf(r, k) ==
    LET idx == {i \in 1..Len(sent[r]) : PromptStages[sent[r][i].stage] = k}
    IN  [j \in 1..Cardinality(idx) |-> sent[r][Kth(idx, j)]]

\* C1: the events of a request are a prefix of topics, outline,
\* initial_content, final_content, optionally followed by one error event
\* that is never preceded by final_content; once an error or final_content
\* event is out, the generator has ended.
C1_EventsArePipelinePrefix ==
    \A r \in Runs :
        LET names == EventNames(r)
            n == Len(names)
        IN  /\ n <= 4
            /\ \A i \in 1..n : names[i] = StageNames[i] \/ (names[i] = "error" /\ i = n)
            /\ (n > 0 /\ names[n] \in {"error", "final_content"}) => pc[r] = Done

\* one request streamed all four stages while another ended with an error after topics
C1_Witness ==
    /\ EventNames("r1") = StageNames
    /\ EventNames("r2") = <<"topics", "error">>

\* C2: when stage N raises (a gate error or any other exception) the request's
\* events end with exactly one error event carrying that exception's message,
\* preceded by the events of stages 1..N-1 only; the generator has ended and
\* no completion call beyond those of stage N was made.  When the polish
\* response is its input unchanged, the events are topics, outline,
\* initial_content, error.
C2_RaiseEndsStreamWithOneError ==
    \A r \in Runs :
        /\ raised[r] # NoError =>
            /\ pc[r] = Done
            /\ Len(events[r]) = raised[r].stage
            /\ EventNames(r) = SubSeq(StageNames, 1, raised[r].stage - 1) \o <<"error">>
            /\ events[r][Len(events[r])].data.error = raised[r].message
            /\ Len(sent[r]) = raised[r].calls
            /\ \A i \in 1..Len(sent[r]) : PromptStages[sent[r][i].stage] <= raised[r].stage
        /\ (raised[r] = NoError /\ pc[r] = Done) => \A i \in 1..Len(events[r]) : events[r][i].event # "error"
        /\ (OutcomesOf(r, 4) # <<>> /\ OutcomesOf(r, 4)[1] = ServiceText(content[r])) =>
            /\ EventNames(r) = <<"topics", "outline", "initial_content", "error">>
            /\ events[r][4].data.error = PolishMessage

\* the polish stage echoed its input in one request and the outline stage hit
\* an exception that is no gate error in the other
C2_Witness ==
    /\ OutcomesOf("r1", 4) = <<ServiceText(content["r1"])>>
    /\ raised["r1"] # NoError /\ raised["r1"].stage = 4
    /\ raised["r2"] # NoError /\ raised["r2"].type = "KeyError"

\* C3: the probe is asked before each of stages 2, 3 and 4 and only there;
\* once it reports a disconnect before stage N the generator has ended with
\* the N-1 events of the earlier stages, no error event, and no completion
\* call of stage N or later.
C3_DisconnectStopsSilently ==
    \A r \in Runs :
        /\ \A k \in 2..4 :
            (pc[r] = StagePc(k) \/ PromptsOf(r, k) # <<>>) =>
                (Len(reports[r]) >= k - 1 /\ ~reports[r][k - 1])
        /\ \A k \in 2..4 : pc[r] = CheckPc(k) => Len(reports[r]) = k - 2
        /\ \A j \in 1..Len(reports[r]) :
            reports[r][j] =>
                /\ j = Len(reports[r])
                /\ pc[r] = Done
                /\ EventNames(r) = SubSeq(StageNames, 1, j)
                /\ raised[r] = NoError
                /\ \A i \in 1..Len(sent[r]) : PromptStages[sent[r][i].stage] <= j

\* the consumer of one request went away right after its topics event, while
\* the other request was stopped before its polish stage
C3_Witness ==
    /\ reports["r1"] = <<TRUE>>
    /\ EventNames("r1") = <<"topics">>
    /\ pc["r1"] = Done
    /\ reports["r2"] = <<FALSE, FALSE, TRUE>>

\* C5: a request in which a completion call failed in transport raises a gate
\* error in the stage that made the call and never yields final_content.
TransportFailed(r) == \E i \in 1..Len(service[r]) : service[r][i].kind = "failure"

C5_TransportFailureNeverPolished ==
    \A r \in Runs :
        TransportFailed(r) =>
            /\ raised[r] # NoError /\ raised[r].type = "ValueError"
            /\ \A i \in 1..Len(events[r]) : events[r][i].event # "final_content"

\* C10: each request's stages read that request's own earlier outputs only:
\* the topics prompt carries its own domain and audience, the outline prompt
\* and the outline event carry the first topic of its own topics event, the
\* section prompts are those of the outline of its own outline event, the
\* polish prompt embeds the content of its own initial_content event, every
\* payload is the stage's result on the request's own responses, and stage
\* N+1 is entered only with the events of stages 1..N out.
C10_RunsReadOnlyTheirOwnOutputs ==
    \A r \in Runs :
        LET ev == StageEvents(r)
            n == Len(ev)
        IN  /\ \A k \in 1..4 : pc[r] \in {StagePc(k), CheckPc(k)} => n = k - 1
            /\ \A i \in 1..n : ev[i].event = StageNames[i]
            /\ PromptsOf(r, 1) # <<>> =>
                   PromptsOf(r, 1) = <<TopicsPrompt(Requests[r][1], Requests[r][2])>>
            /\ n >= 1 =>
                   ev[1].data.topics =
                       generate_blog_topics(Requests[r][1], Requests[r][2],
                                            OutcomesOf(r, 1)[1]).value
            /\ PromptsOf(r, 2) # <<>> =>
                   PromptsOf(r, 2) = <<OutlinePrompt(ev[1].data.topics[1])>>
            /\ n >= 2 =>
                   /\ ev[2].data.topic = ev[1].data.topics[1]
                   /\ ev[2].data.outline =
                          create_outline(ev[1].data.topics[1], OutcomesOf(r, 2)[1]).value
            /\ PromptsOf(r, 3) # <<>> =>
                   PromptsOf(r, 3) = SectionPrompts(ev[2].data.outline)
            /\ n >= 3 =>
                   ev[3].data.content =
                       write_content(ev[2].data.outline, OutcomesOf(r, 3)).value
            /\ PromptsOf(r, 4) # <<>> =>
                   PromptsOf(r, 4) = <<PolishPrompt(ev[3].data.content)>>
            /\ n >= 4 =>
                   ev[4].data.content =
                       edit_and_polish(ev[3].data.content, OutcomesOf(r, 4)[1]).value

\* two requests with different topics, outlines and drafts both reached the polish stage
C10_Witness ==
    /\ Len(StageEvents("r1")) = 4 /\ Len(StageEvents("r2")) = 4
    /\ events["r1"][1].data.topics[1] # events["r2"][1].data.topics[1]
    /\ events["r1"][2].data.outline # events["r2"][2].data.outline
    /\ events["r1"][3].data.content # events["r2"][3].data.content

====
